---- MODULE Spec2Model ----
(***************************************************************************)
(* Model of the trading bot of this repository: the position ledger        *)
(* (portfolio.py), order placement (order.py), the broker callbacks and    *)
(* the trading cycle (main.py), and the position lookup (checks.py).       *)
(*                                                                         *)
(* Prices are exact rationals <<numerator, denominator>> (the source uses  *)
(* Python floats); timestamps (entry_time, trade timestamp) are wall-clock *)
(* readings that no decision depends on and are left out of the records.   *)
(***************************************************************************)
EXTENDS Integers, Sequences, FiniteSets, TLC

\* ------------------------------------------------------------------------
\* Bounds of the model
\* ------------------------------------------------------------------------
\* longest trade log explored when the ledger is driven directly
MaxTrades == 3
\* most orders the trading loop places in one run
MaxOrders == 2
\* longest close series tried with the short periods below
MaxSeries == 5
\* a short moving-average period and a short oscillator period, for series
\* small enough to try them all
ShortMaPeriod == 3
ShortRsiPeriod == 2

\* ------------------------------------------------------------------------
\* Program constants and input domains
\* ------------------------------------------------------------------------
DEFAULT_POSITION_SIZE == 10
RSI_OVERBOUGHT == 70
RSI_OVERSOLD == 30
MA_PERIOD == 50
RSI_PERIOD == 14
\* "Simulated value" of checks.check_buying_power
buying_power == 100000
\* SYMBOLS of config.py, as the list the loop iterates
SYMBOLS == <<"NET">>

\* Python None where an order id is expected (broker order ids are >= 0)
None == -1

\* symbols a ledger can be asked about (config.SYMBOLS is ['NET'])
Symbols == {"NET", "AAPL"}
Actions == {"BUY", "SELL", "SHORT", "COVER"}
\* fill quantities and prices offered to update_position
LedgerQtys == {5, 8}
LedgerPrices == {40, 50}
LedgerOrderIds == {1}

\* closes and oscillator readings of the latest bar
ClosePrices == {50}
RsiValues == {20, 50, 80}
\* first order id the gateway hands out
FirstOrderId == 1

VARIABLES
    positions,          \* PortfolioManager.positions
    trades,             \* PortfolioManager.trades
    nextValidOrderId,   \* IBApiClient.nextValidOrderId
    position_data,      \* IBApiClient.position_data (the 'position' field)
    order_status,       \* IBApiClient.order_status (the 'status' field)
    connected,          \* EClient.isConnected()
    idInFlight,         \* nextValidId message the gateway has sent, not yet delivered
    orders,             \* orders the gateway has received, in arrival order
    account,            \* the gateway's own position per symbol
    pc,                 \* where the driver thread stands
    idx,                \* index into SYMBOLS of the symbol being processed
    latest,             \* run_strategy: signals_df.iloc[-1]
    position,           \* run_strategy: position
    intent,             \* run_strategy: the action/quantity handed to place_limit_order
    order_id,           \* run_strategy: order_id
    historical_data,    \* number of bars in IBApiClient.historical_data
    historical_data_end,\* IBApiClient.historical_data_end
    req_open,           \* the gateway is still serving a historical-data request
    elapsed,            \* get_historical_data: seconds since start_time
    data,               \* rows of the DataFrame get_historical_data last returned
    timed_out,          \* get_historical_data: the wait ended without the end event
    late_open,          \* the gateway is still serving an earlier request that timed out
    foreign,            \* bars in IBApiClient.historical_data that answer an earlier request
    active,             \* TradingBot.active
    keep_running,       \* TradingBot.keep_running
    wait_time,          \* connect_to_ib: wait_time, in steps of 0.1
    handled,            \* outcome of each symbol the for loop has processed this cycle
    bars,               \* the 'close' column of the DataFrame given to generate_signals
    signals_df,         \* the rows of the DataFrame generate_signals returned
    generator           \* SignalGenerator: ma_period, rsi_period

ledger == <<positions, trades>>
client == <<nextValidOrderId, position_data, order_status>>
gateway == <<connected, idInFlight, orders, account>>
driver == <<pc, idx, latest, position, intent, order_id>>
earlier == <<late_open, foreign>>
fetcher == <<historical_data, historical_data_end, req_open, elapsed, data, timed_out,
            late_open, foreign>>
looper == <<active, keep_running, wait_time, handled>>
analyst == <<bars, signals_df, generator>>
vars == <<positions, trades, nextValidOrderId, position_data, order_status,
          connected, idInFlight, orders, account,
          pc, idx, latest, position, intent, order_id,
          historical_data, historical_data_end, req_open, elapsed, data, timed_out,
          late_open, foreign,
          active, keep_running, wait_time, handled,
          bars, signals_df, generator>>

\* ------------------------------------------------------------------------
\* Exact arithmetic on prices
\* ------------------------------------------------------------------------
Abs(x) == IF x < 0 THEN -x ELSE x

\* the newest element of a list
Last(q) == q[Len(q)]

RECURSIVE GCD(_, _)
GCD(a, b) == IF b = 0 THEN a ELSE GCD(b, a % b)

\* the quotient n / d (d # 0) in lowest terms with a positive denominator
Div(n, d) ==
    LET g == GCD(Abs(n), Abs(d))
        s == IF d < 0 THEN -1 ELSE 1
    IN  <<(s * n) \div g, (s * d) \div g>>

\* a price given as a whole number
Price(p) == <<p, 1>>

\* (q1 * p1 + q2 * p2) / new_qty for whole numbers q1, q2, new_qty # 0
WeightedPrice(q1, p1, q2, p2, new_qty) ==
    Div(q1 * p1[1] * p2[2] + q2 * p2[1] * p1[2], p1[2] * p2[2] * new_qty)

\* ------------------------------------------------------------------------
\* PortfolioManager (portfolio.py)
\* ------------------------------------------------------------------------
\* self.positions = {} : a dict keyed by symbol
EmptyPositions == [s \in {} |-> {}]

\* del self.positions[symbol]
Del(pos, symbol) == [s \in DOMAIN pos \ {symbol} |-> pos[s]]

\* self.positions[symbol] = rec
Put(pos, symbol, rec) == [s \in DOMAIN pos \cup {symbol} |-> IF s = symbol THEN rec ELSE pos[s]]

\* BUY that overwrites the entry price of an existing position with the new price
BuyBranch_NoAverage(pos, symbol, quantity, price) ==
    IF symbol \in DOMAIN pos
    THEN LET old_qty == pos[symbol].qty
             new_qty == old_qty + quantity
         IN  IF new_qty # 0
             THEN [pos EXCEPT ![symbol] = [@ EXCEPT !.entry_price = price, !.qty = new_qty]]
             ELSE Del(pos, symbol)
    ELSE Put(pos, symbol,
             [qty |-> quantity, entry_price |-> price, position_type |-> "LONG"])

\* action == "BUY"
BuyBranch(pos, symbol, quantity, price) ==
    IF symbol \in DOMAIN pos
    THEN LET old_qty == pos[symbol].qty
             old_price == pos[symbol].entry_price
             new_qty == old_qty + quantity
         IN  IF new_qty # 0
             THEN [pos EXCEPT ![symbol] =
                      [@ EXCEPT !.entry_price =
                                    WeightedPrice(old_qty, old_price, quantity, price, new_qty),
                                !.qty = new_qty]]
             ELSE Del(pos, symbol)
    ELSE Put(pos, symbol,
             [qty |-> quantity, entry_price |-> price, position_type |-> "LONG"])

\* SELL that keeps a position sold down to nothing (new_qty < 0 for new_qty <= 0)
SellBranch_KeepsEmpty(pos, symbol, quantity, price) ==
    IF symbol \in DOMAIN pos
    THEN LET current_qty == pos[symbol].qty
             new_qty == current_qty - quantity
         IN  IF new_qty < 0
             THEN Del(pos, symbol)
             ELSE [pos EXCEPT ![symbol] = [@ EXCEPT !.qty = new_qty]]
    ELSE pos

\* action == "SELL"
SellBranch(pos, symbol, quantity, price) ==
    IF symbol \in DOMAIN pos
    THEN LET current_qty == pos[symbol].qty
             new_qty == current_qty - quantity
         IN  IF new_qty <= 0
             THEN Del(pos, symbol)
             ELSE [pos EXCEPT ![symbol] = [@ EXCEPT !.qty = new_qty]]
    ELSE pos

\* SHORT that overwrites the entry price of an existing position with the new price
ShortBranch_NoAverage(pos, symbol, quantity, price) ==
    IF symbol \in DOMAIN pos
    THEN LET old_qty == pos[symbol].qty
             new_qty == old_qty - quantity
         IN  IF new_qty = 0
             THEN Del(pos, symbol)
             ELSE [pos EXCEPT ![symbol] =
                      [@ EXCEPT !.entry_price = price,
                                !.qty = new_qty,
                                !.position_type = IF new_qty < 0 THEN "SHORT" ELSE "LONG"]]
    ELSE Put(pos, symbol,
             [qty |-> -quantity, entry_price |-> price, position_type |-> "SHORT"])

\* action == "SHORT"
ShortBranch(pos, symbol, quantity, price) ==
    IF symbol \in DOMAIN pos
    THEN LET old_qty == pos[symbol].qty
             old_price == pos[symbol].entry_price
             new_qty == old_qty - quantity
         IN  IF new_qty = 0
             THEN Del(pos, symbol)
             ELSE [pos EXCEPT ![symbol] =
                      [@ EXCEPT !.entry_price =
                                    WeightedPrice(old_qty, old_price, -quantity, price, new_qty),
                                !.qty = new_qty,
                                !.position_type = IF new_qty < 0 THEN "SHORT" ELSE "LONG"]]
    ELSE Put(pos, symbol,
             [qty |-> -quantity, entry_price |-> price, position_type |-> "SHORT"])

\* COVER that forgets to reprice a short flipped to a long
CoverBranch_KeepsPrice(pos, symbol, quantity, price) ==
    IF symbol \in DOMAIN pos /\ pos[symbol].qty < 0
    THEN LET current_qty == pos[symbol].qty
             new_qty == current_qty + quantity
         IN  IF new_qty >= 0
             THEN IF new_qty = 0
                  THEN Del(pos, symbol)
                  ELSE [pos EXCEPT ![symbol] =
                           [@ EXCEPT !.qty = new_qty,
                                     !.position_type = "LONG"]]
             ELSE [pos EXCEPT ![symbol] = [@ EXCEPT !.qty = new_qty]]
    ELSE pos

\* action == "COVER"
CoverBranch(pos, symbol, quantity, price) ==
    IF symbol \in DOMAIN pos /\ pos[symbol].qty < 0
    THEN LET current_qty == pos[symbol].qty
             new_qty == current_qty + quantity
         IN  IF new_qty >= 0
             THEN IF new_qty = 0
                  THEN Del(pos, symbol)
                  ELSE [pos EXCEPT ![symbol] =
                           [@ EXCEPT !.qty = new_qty,
                                     !.position_type = "LONG",
                                     !.entry_price = price]]
             ELSE [pos EXCEPT ![symbol] = [@ EXCEPT !.qty = new_qty]]
    ELSE pos

\* the trade record appended by every call
TradeRecord(symbol, quantity, price, action, oid) ==
    [symbol |-> symbol, action |-> action, qty |-> quantity,
     price |-> price, order_id |-> oid]

\* the position map after update_position
NewPositions(pos, symbol, quantity, price, action) ==
    CASE action = "BUY" -> BuyBranch(pos, symbol, quantity, price)
      [] action = "SELL" -> SellBranch(pos, symbol, quantity, price)
      [] action = "SHORT" -> ShortBranch(pos, symbol, quantity, price)
      [] action = "COVER" -> CoverBranch(pos, symbol, quantity, price)
      [] OTHER -> pos

\* a log that puts the newest record first (insert(0, trade) for append(trade))
NewTrades_Prepends(log, symbol, quantity, price, action, oid) ==
    <<TradeRecord(symbol, quantity, price, action, oid)>> \o log

\* the trade log after update_position
NewTrades(log, symbol, quantity, price, action, oid) ==
    Append(log, TradeRecord(symbol, quantity, price, action, oid))

\* PortfolioManager.update_position as a step of the ledger
update_position(symbol, quantity, price, action, oid) ==
    /\ positions' = NewPositions(positions, symbol, quantity, price, action)
    /\ trades' = NewTrades(trades, symbol, quantity, price, action, oid)

get_position(pos, symbol) ==
    IF symbol \in DOMAIN pos THEN pos[symbol].qty ELSE 0

is_short_position(pos, symbol) ==
    IF symbol \in DOMAIN pos THEN pos[symbol].qty < 0 ELSE FALSE

\* ------------------------------------------------------------------------
\* SignalGenerator.generate_signals, the columns of the latest bar (signals.py)
\* ------------------------------------------------------------------------
\* flags whose buy signal needs only one of its two conditions ("|" for "&")
LatestBar_BuyOnEither(above, prev_above, rsi, close) ==
    LET price_cross_above_sma == above /\ ~prev_above
        price_cross_below_sma == ~above /\ prev_above
        rsi_below_threshold == rsi < RSI_OVERSOLD
        rsi_above_threshold == rsi >= RSI_OVERBOUGHT
    IN  [close |-> close,
         price_cross_above_sma |-> price_cross_above_sma,
         price_cross_below_sma |-> price_cross_below_sma,
         rsi_below_threshold |-> rsi_below_threshold,
         rsi_above_threshold |-> rsi_above_threshold,
         buy_signal |-> price_cross_above_sma \/ rsi_below_threshold,
         sell_signal |-> price_cross_below_sma \/ rsi_above_threshold,
         short_signal |-> price_cross_below_sma \/ rsi_above_threshold,
         cover_signal |-> price_cross_above_sma \/ rsi_below_threshold]

\* above / prev_above: close > sma on the latest bar and on the bar before it
LatestBar(above, prev_above, rsi, close) ==
    LET price_cross_above_sma == above /\ ~prev_above
        price_cross_below_sma == ~above /\ prev_above
        rsi_below_threshold == rsi < RSI_OVERSOLD
        rsi_above_threshold == rsi >= RSI_OVERBOUGHT
    IN  [close |-> close,
         price_cross_above_sma |-> price_cross_above_sma,
         price_cross_below_sma |-> price_cross_below_sma,
         rsi_below_threshold |-> rsi_below_threshold,
         rsi_above_threshold |-> rsi_above_threshold,
         buy_signal |-> price_cross_above_sma /\ rsi_below_threshold,
         sell_signal |-> price_cross_below_sma \/ rsi_above_threshold,
         short_signal |-> price_cross_below_sma \/ rsi_above_threshold,
         cover_signal |-> price_cross_above_sma \/ rsi_below_threshold]

\* the value of latest before any bar has been read
NoBar == [close |-> 0,
          price_cross_above_sma |-> FALSE, price_cross_below_sma |-> FALSE,
          rsi_below_threshold |-> FALSE, rsi_above_threshold |-> FALSE,
          buy_signal |-> FALSE, sell_signal |-> FALSE,
          short_signal |-> FALSE, cover_signal |-> FALSE]

\* ------------------------------------------------------------------------
\* calculate_sma, calculate_rsi (indicators.py) and generate_signals over a
\* whole close series; closes are whole numbers, bar 1 is the oldest
\* ------------------------------------------------------------------------
\* NaN in a column of numbers
NaN == <<0, 0>>

\* f[i - n + 1] + ... + f[i]
RECURSIVE WindowSum(_, _, _)
WindowSum(f, i, n) ==
    IF n = 0 THEN 0 ELSE f[i] + WindowSum(f, i - 1, n - 1)

\* close.rolling(window=period).mean() at bar i
calculate_sma(closes, i, period) ==
    IF i < period THEN NaN ELSE Div(WindowSum(closes, i, period), period)

\* delta = series.diff(); gain = delta.where(delta > 0, 0): NaN at the first
\* bar is not > 0 and becomes 0
Gain(closes) ==
    [i \in DOMAIN closes |->
        IF i > 1 /\ closes[i] - closes[i - 1] > 0 THEN closes[i] - closes[i - 1] ELSE 0]

\* loss = -delta.where(delta < 0, 0)
Loss(closes) ==
    [i \in DOMAIN closes |->
        IF i > 1 /\ closes[i] - closes[i - 1] < 0 THEN closes[i - 1] - closes[i] ELSE 0]

\* rs = avg_gain / avg_loss; rsi = 100 - (100 / (1 + rs)) at bar i, in floating
\* point: x / 0 is inf for x > 0 and gives rsi 100, 0 / 0 is NaN
calculate_rsi(closes, i, period) ==
    IF i < period THEN NaN
    ELSE LET g == WindowSum(Gain(closes), i, period)
             l == WindowSum(Loss(closes), i, period)
         IN  IF l = 0
             THEN IF g = 0 THEN NaN ELSE Price(100)
             ELSE Div(100 * g, g + l)

\* a comparison that takes the wrong side of the average
Above_Reversed(close, sma) ==
    IF sma = NaN THEN FALSE ELSE close * sma[2] < sma[1]

\* df['close'] > df['sma']: False where sma is NaN
Above(close, sma) ==
    IF sma = NaN THEN FALSE ELSE close * sma[2] > sma[1]

\* a crossing flag that is the level, not the change
CrossAbove_Level(above, prev_above) == above

\* price_above_sma & ~price_above_sma.shift(1).fillna(False)
CrossAbove(above, prev_above) == above /\ ~prev_above

\* ~price_above_sma & price_above_sma.shift(1).fillna(False)
CrossBelow(above, prev_above) == ~above /\ prev_above

\* row i of the DataFrame generate_signals returns
SignalRow(closes, i, g) ==
    LET sma == calculate_sma(closes, i, g.ma_period)
        rsi == calculate_rsi(closes, i, g.rsi_period)
        above == Above(closes[i], sma)
        prev_above == IF i = 1 THEN FALSE
                      ELSE Above(closes[i - 1], calculate_sma(closes, i - 1, g.ma_period))
        price_cross_above_sma == CrossAbove(above, prev_above)
        price_cross_below_sma == CrossBelow(above, prev_above)
        rsi_below_threshold == rsi # NaN /\ rsi[1] < RSI_OVERSOLD * rsi[2]
        rsi_above_threshold == rsi # NaN /\ rsi[1] >= RSI_OVERBOUGHT * rsi[2]
    IN  [close |-> closes[i], sma |-> sma, rsi |-> rsi,
         price_above_sma |-> above,
         price_cross_above_sma |-> price_cross_above_sma,
         price_cross_below_sma |-> price_cross_below_sma,
         rsi_below_threshold |-> rsi_below_threshold,
         rsi_above_threshold |-> rsi_above_threshold,
         buy_signal |-> price_cross_above_sma /\ rsi_below_threshold,
         sell_signal |-> price_cross_below_sma \/ rsi_above_threshold,
         short_signal |-> price_cross_below_sma \/ rsi_above_threshold,
         cover_signal |-> price_cross_above_sma \/ rsi_below_threshold]

\* the DataFrame generate_signals returns for a series long enough
generate_signals(closes, g) ==
    [i \in DOMAIN closes |-> SignalRow(closes, i, g)]

\* ------------------------------------------------------------------------
\* TradingChecks (checks.py)
\* ------------------------------------------------------------------------
check_buying_power(order_value) == buying_power >= order_value

get_current_position(pdata, symbol) ==
    IF symbol \in DOMAIN pdata THEN pdata[symbol] ELSE 0

\* shortable: what check_shortable learns from the gateway
validate_short_order(shortable, quantity) ==
    IF ~shortable THEN FALSE
    ELSE check_buying_power((100 * quantity * 3) \div 2)

\* ------------------------------------------------------------------------
\* TradingBot.run_strategy: the branch taken (main.py)
\* ------------------------------------------------------------------------
NoIntent == [action |-> "NONE", quantity |-> 0]

\* a decision that buys on a buy signal whatever the position is
\* ("if latest.buy_signal" for "if position == 0 and latest.buy_signal")
Intent_BuysWhenLong(pos_value, bar, shortable) ==
    IF pos_value >= 0
    THEN IF bar.buy_signal
         THEN IF check_buying_power(bar.close * DEFAULT_POSITION_SIZE)
              THEN [action |-> "BUY", quantity |-> DEFAULT_POSITION_SIZE]
              ELSE NoIntent
         ELSE IF pos_value > 0 /\ bar.sell_signal
         THEN [action |-> "SELL", quantity |-> pos_value]
         ELSE IF pos_value = 0 /\ bar.short_signal
         THEN IF validate_short_order(shortable, DEFAULT_POSITION_SIZE)
              THEN [action |-> "SHORT", quantity |-> DEFAULT_POSITION_SIZE]
              ELSE NoIntent
         ELSE NoIntent
    ELSE IF bar.cover_signal
         THEN [action |-> "COVER", quantity |-> Abs(pos_value)]
         ELSE NoIntent

\* a decision that covers with the signed position (position for abs(position))
Intent_CoversSigned(pos_value, bar, shortable) ==
    IF pos_value >= 0
    THEN IF pos_value = 0 /\ bar.buy_signal
         THEN IF check_buying_power(bar.close * DEFAULT_POSITION_SIZE)
              THEN [action |-> "BUY", quantity |-> DEFAULT_POSITION_SIZE]
              ELSE NoIntent
         ELSE IF pos_value > 0 /\ bar.sell_signal
         THEN [action |-> "SELL", quantity |-> pos_value]
         ELSE IF pos_value = 0 /\ bar.short_signal
         THEN IF validate_short_order(shortable, DEFAULT_POSITION_SIZE)
              THEN [action |-> "SHORT", quantity |-> DEFAULT_POSITION_SIZE]
              ELSE NoIntent
         ELSE NoIntent
    ELSE IF bar.cover_signal
         THEN [action |-> "COVER", quantity |-> pos_value]
         ELSE NoIntent

\* the action and quantity run_strategy hands to place_limit_order
Intent(pos_value, bar, shortable) ==
    IF pos_value >= 0
    THEN IF pos_value = 0 /\ bar.buy_signal
         THEN IF check_buying_power(bar.close * DEFAULT_POSITION_SIZE)
              THEN [action |-> "BUY", quantity |-> DEFAULT_POSITION_SIZE]
              ELSE NoIntent
         ELSE IF pos_value > 0 /\ bar.sell_signal
         THEN [action |-> "SELL", quantity |-> pos_value]
         ELSE IF pos_value = 0 /\ bar.short_signal
         THEN IF validate_short_order(shortable, DEFAULT_POSITION_SIZE)
              THEN [action |-> "SHORT", quantity |-> DEFAULT_POSITION_SIZE]
              ELSE NoIntent
         ELSE NoIntent
    ELSE IF bar.cover_signal
         THEN [action |-> "COVER", quantity |-> Abs(pos_value)]
         ELSE NoIntent

\* a caller that records the trade without testing the returned id
Truthy_Always(oid) == TRUE

\* "if order_id:" - None and 0 are both false
Truthy(oid) == oid # None /\ oid # 0

\* ------------------------------------------------------------------------
\* OrderManager (order.py)
\* ------------------------------------------------------------------------
\* order.action of the order object built for each kind of placement
OrderAction(action) ==
    CASE action = "SHORT" -> "SSHORT"
      [] action = "COVER" -> "BUY"
      [] OTHER -> action

\* the value place_limit_order returns; raises: placeOrder threw
place_limit_order(nvid, current_price, raises) ==
    IF current_price = None THEN None
    ELSE IF nvid = None THEN None
    ELSE IF raises THEN None
    ELSE nvid

\* ------------------------------------------------------------------------
\* The gateway (broker side)
\* ------------------------------------------------------------------------
TerminalStatus == {"Filled", "Cancelled"}

RECURSIVE MaxOrderId(_)
MaxOrderId(os) ==
    IF os = <<>> THEN FirstOrderId - 1
    ELSE LET m == MaxOrderId(Tail(os))
         IN  IF Head(os).orderId > m THEN Head(os).orderId ELSE m

\* the id a nextValidId message carries
GatewayNextId == MaxOrderId(orders) + 1

\* the change a filled order makes to the account
FillDelta(o) == IF o.action = "BUY" THEN o.quantity ELSE -o.quantity

\* ------------------------------------------------------------------------
\* The trading bot: driver thread, listener thread, gateway
\* ------------------------------------------------------------------------
\* IBApiClient.__init__: no bars, no end event; no fetch has run
IdleFetcher ==
    /\ historical_data = 0
    /\ historical_data_end = FALSE
    /\ req_open = FALSE
    /\ elapsed = 0
    /\ data = None
    /\ timed_out = FALSE
    /\ late_open = FALSE
    /\ foreign = 0

\* the bot's SignalGenerator(MA_PERIOD, RSI_PERIOD, ...), not yet called
IdleAnalyst ==
    /\ bars = <<>>
    /\ signals_df = <<>>
    /\ generator = [ma_period |-> MA_PERIOD, rsi_period |-> RSI_PERIOD]

\* TradingBot.__init__: active = False, keep_running = True
IdleLooper ==
    /\ active = FALSE
    /\ keep_running = TRUE
    /\ wait_time = 0
    /\ handled = <<>>

Init ==
    /\ positions = EmptyPositions
    /\ trades = <<>>
    /\ position_data = [s \in {} |-> 0]
    /\ order_status = [o \in {} |-> ""]
    /\ \/ connected = TRUE /\ nextValidOrderId = FirstOrderId /\ idInFlight = None
       \/ connected = TRUE /\ nextValidOrderId = None /\ idInFlight = FirstOrderId
       \/ connected = FALSE /\ nextValidOrderId = None /\ idInFlight = None
    /\ orders = <<>>
    /\ account = [s \in Symbols |-> 0]
    /\ pc = "init"
    /\ idx = 1
    /\ latest = NoBar
    /\ position = 0
    /\ intent = NoIntent
    /\ order_id = None
    /\ IdleFetcher
    /\ IdleLooper
    /\ IdleAnalyst

\* start_trading: "if not self.api_client.nextValidOrderId" returns False,
\* else it subscribes to positions and enters the loop
StartTrading ==
    /\ pc = "init"
    /\ pc' = IF nextValidOrderId = None \/ nextValidOrderId = 0 THEN "stopped" ELSE "loop"
    /\ UNCHANGED <<ledger, client, gateway, idx, latest, position, intent, order_id>>
    /\ UNCHANGED <<fetcher, looper>>
    /\ UNCHANGED analyst

\* the for loop moves to the next symbol; after the last one the report is
\* written and the next cycle starts with the first symbol
NextIdx == IF idx < Len(SYMBOLS) THEN idx + 1 ELSE 1

\* run_strategy returns: its locals are gone
Return ==
    /\ pc' = "loop"
    /\ idx' = NextIdx
    /\ latest' = NoBar /\ position' = 0 /\ intent' = NoIntent /\ order_id' = None

\* reconnect_if_needed while the session is up, then entry to run_strategy
ReconnectNotNeeded ==
    /\ pc = "loop"
    /\ Len(trades) < MaxOrders
    /\ connected
    /\ pc' = "fetch"
    /\ UNCHANGED <<ledger, client, gateway, idx, latest, position, intent, order_id>>
    /\ UNCHANGED <<fetcher, looper>>
    /\ UNCHANGED analyst

\* reconnect_if_needed while the session is down: connect_to_ib. succeeds: the
\* socket connects; raises: connect threw. The wait loop ends at once when an
\* order id is already known, and the result is "an order id is known".
Reconnect ==
    /\ pc = "loop"
    /\ Len(trades) < MaxOrders
    /\ ~connected
    /\ \E succeeds \in BOOLEAN, raises \in BOOLEAN :
          /\ ~(succeeds /\ raises)
          /\ connected' = succeeds
          /\ idInFlight' = IF succeeds THEN GatewayNextId ELSE idInFlight
          /\ IF ~raises /\ nextValidOrderId # None
             THEN /\ pc' = "fetch"
                  /\ idx' = idx
             ELSE /\ pc' = "loop"
                  /\ idx' = NextIdx
    /\ UNCHANGED <<ledger, client, orders, account, latest, position, intent, order_id>>
    /\ UNCHANGED <<fetcher, looper>>
    /\ UNCHANGED analyst

\* get_historical_data returns nothing (not connected, timed out, empty) or
\* generate_signals returns None (too few bars): run_strategy returns
FetchNoData ==
    /\ pc = "fetch"
    /\ UNCHANGED <<ledger, client, gateway>>
    /\ Return
    /\ UNCHANGED <<fetcher, looper>>
    /\ UNCHANGED analyst

\* data arrived and signals were generated: latest = signals_df.iloc[-1]
FetchSignals ==
    /\ pc = "fetch"
    /\ connected
    /\ \E above \in BOOLEAN, prev_above \in BOOLEAN, rsi \in RsiValues, close \in ClosePrices :
          latest' = LatestBar(above, prev_above, rsi, close)
    /\ pc' = "read"
    /\ UNCHANGED <<ledger, client, gateway, idx, position, intent, order_id>>
    /\ UNCHANGED <<fetcher, looper>>
    /\ UNCHANGED analyst

\* position = self.trading_checks.get_current_position(symbol)
ReadPosition ==
    /\ pc = "read"
    /\ position' = get_current_position(position_data, SYMBOLS[idx])
    /\ pc' = "place"
    /\ UNCHANGED <<ledger, client, gateway, idx, latest, intent, order_id>>
    /\ UNCHANGED <<fetcher, looper>>
    /\ UNCHANGED analyst

\* no branch of the position logic applies: run_strategy returns
NoOrder ==
    /\ pc = "place"
    /\ \E shortable \in BOOLEAN : Intent(position, latest, shortable) = NoIntent
    /\ UNCHANGED <<ledger, client, gateway>>
    /\ Return
    /\ UNCHANGED <<fetcher, looper>>
    /\ UNCHANGED analyst

\* a placement that hands the same order to the gateway twice
PlaceOrder_Twice ==
    /\ pc = "place"
    /\ \E shortable \in BOOLEAN, raises \in BOOLEAN :
          LET it == Intent(position, latest, shortable)
              oid == place_limit_order(nextValidOrderId, latest.close, raises)
              o == [orderId |-> oid, symbol |-> SYMBOLS[idx],
                    action |-> OrderAction(it.action),
                    quantity |-> it.quantity, status |-> "Submitted"]
          IN  /\ it # NoIntent
              /\ intent' = it
              /\ order_id' = oid
              /\ orders' = IF oid # None /\ connected
                           THEN Append(Append(orders, o), o)
                           ELSE orders
    /\ pc' = "record"
    /\ UNCHANGED <<ledger, client, connected, idInFlight, account, idx, latest, position>>
    /\ UNCHANGED <<fetcher, looper>>
    /\ UNCHANGED analyst

\* place_limit_order up to and including placeOrder. A connected client sends
\* the order to the gateway; a disconnected one reports an error and returns.
PlaceOrder ==
    /\ pc = "place"
    /\ \E shortable \in BOOLEAN, raises \in BOOLEAN :
          LET it == Intent(position, latest, shortable)
              oid == place_limit_order(nextValidOrderId, latest.close, raises)
          IN  /\ it # NoIntent
              /\ intent' = it
              /\ order_id' = oid
              /\ orders' = IF oid # None /\ connected
                           THEN Append(orders, [orderId |-> oid, symbol |-> SYMBOLS[idx],
                                                action |-> OrderAction(it.action),
                                                quantity |-> it.quantity,
                                                status |-> "Submitted"])
                           ELSE orders
    /\ pc' = "record"
    /\ UNCHANGED <<ledger, client, connected, idInFlight, account, idx, latest, position>>
    /\ UNCHANGED <<fetcher, looper>>
    /\ UNCHANGED analyst

\* a driver that waits for the fill of the order it placed before going on
RecordOrder_AwaitsFill ==
    /\ pc = "record"
    /\ order_id # None =>
          (order_id \in DOMAIN order_status /\ order_status[order_id] = "Filled")
    /\ nextValidOrderId' = IF order_id # None THEN nextValidOrderId + 1 ELSE nextValidOrderId
    /\ IF Truthy(order_id)
       THEN update_position(SYMBOLS[idx], intent.quantity, Price(latest.close),
                            intent.action, order_id)
       ELSE UNCHANGED ledger
    /\ Return
    /\ UNCHANGED <<position_data, order_status, gateway>>
    /\ UNCHANGED <<fetcher, looper>>
    /\ UNCHANGED analyst

\* after placeOrder: nextValidOrderId += 1, return to run_strategy,
\* "if order_id:" update the portfolio; run_strategy returns
RecordOrder ==
    /\ pc = "record"
    /\ nextValidOrderId' = IF order_id # None THEN nextValidOrderId + 1 ELSE nextValidOrderId
    /\ IF Truthy(order_id)
       THEN update_position(SYMBOLS[idx], intent.quantity, Price(latest.close),
                            intent.action, order_id)
       ELSE UNCHANGED ledger
    /\ Return
    /\ UNCHANGED <<position_data, order_status, gateway>>
    /\ UNCHANGED <<fetcher, looper>>
    /\ UNCHANGED analyst

\* IBApiClient.nextValidId
NextValidId ==
    /\ connected
    /\ idInFlight # None
    /\ nextValidOrderId' = idInFlight
    /\ idInFlight' = None
    /\ UNCHANGED <<ledger, position_data, order_status, connected, orders, account, driver>>
    /\ UNCHANGED <<fetcher, looper>>
    /\ UNCHANGED analyst

\* a position callback that also writes the ledger
PositionCallback_WritesLedger ==
    /\ connected
    /\ pc \notin {"init", "stopped"}
    /\ \E symbol \in Symbols :
          /\ get_current_position(position_data, symbol) # account[symbol]
          /\ position_data' = Put(position_data, symbol, account[symbol])
          /\ positions' = IF account[symbol] = 0 THEN Del(positions, symbol)
                          ELSE Put(positions, symbol,
                                   [qty |-> account[symbol], entry_price |-> Price(0),
                                    position_type |-> IF account[symbol] > 0
                                                      THEN "LONG" ELSE "SHORT"])
    /\ UNCHANGED <<trades, nextValidOrderId, order_status, gateway, driver>>
    /\ UNCHANGED <<fetcher, looper>>
    /\ UNCHANGED analyst

\* IBApiClient.position: the gateway reports the account's position in a symbol
PositionCallback ==
    /\ connected
    /\ pc \notin {"init", "stopped"}
    /\ \E symbol \in Symbols :
          /\ get_current_position(position_data, symbol) # account[symbol]
          /\ position_data' = Put(position_data, symbol, account[symbol])
    /\ UNCHANGED <<ledger, nextValidOrderId, order_status, gateway, driver>>
    /\ UNCHANGED <<fetcher, looper>>
    /\ UNCHANGED analyst

\* IBApiClient.orderStatus: the gateway reports the status of an order
OrderStatusCallback ==
    /\ connected
    /\ \E i \in DOMAIN orders :
          /\ ~(orders[i].orderId \in DOMAIN order_status
               /\ order_status[orders[i].orderId] = orders[i].status)
          /\ order_status' = Put(order_status, orders[i].orderId, orders[i].status)
    /\ UNCHANGED <<ledger, nextValidOrderId, position_data, gateway, driver>>
    /\ UNCHANGED <<fetcher, looper>>
    /\ UNCHANGED analyst

\* the gateway fills a working order
GatewayFill ==
    /\ \E i \in DOMAIN orders :
          /\ orders[i].status = "Submitted"
          /\ orders' = [orders EXCEPT ![i].status = "Filled"]
          /\ account' = [account EXCEPT ![orders[i].symbol] = @ + FillDelta(orders[i])]
    /\ UNCHANGED <<ledger, client, connected, idInFlight, driver>>
    /\ UNCHANGED <<fetcher, looper>>
    /\ UNCHANGED analyst

\* the gateway cancels or rejects a working order
GatewayCancel ==
    /\ \E i \in DOMAIN orders :
          /\ orders[i].status = "Submitted"
          /\ orders' = [orders EXCEPT ![i].status = "Cancelled"]
    /\ UNCHANGED <<ledger, client, connected, idInFlight, account, driver>>
    /\ UNCHANGED <<fetcher, looper>>
    /\ UNCHANGED analyst

\* transport failure
Disconnect ==
    /\ connected
    /\ pc # "stopped"
    /\ connected' = FALSE
    /\ idInFlight' = None
    /\ UNCHANGED <<ledger, client, orders, account, driver>>
    /\ UNCHANGED <<fetcher, looper>>
    /\ UNCHANGED analyst

Next ==
    \/ StartTrading
    \/ ReconnectNotNeeded
    \/ Reconnect
    \/ FetchNoData
    \/ FetchSignals
    \/ ReadPosition
    \/ NoOrder
    \/ PlaceOrder
    \/ RecordOrder
    \/ NextValidId
    \/ PositionCallback
    \/ OrderStatusCallback
    \/ GatewayFill
    \/ GatewayCancel
    \/ Disconnect

Spec == Init /\ [][Next]_vars

\* the steps of the driver thread inside run_strategy
DriverStep ==
    \/ FetchNoData
    \/ FetchSignals
    \/ ReadPosition
    \/ NoOrder
    \/ PlaceOrder
    \/ RecordOrder

\* ------------------------------------------------------------------------
\* The ledger driven through its public operation
\* ------------------------------------------------------------------------
LedgerInit ==
    /\ positions = EmptyPositions
    /\ trades = <<>>
    /\ nextValidOrderId = None
    /\ position_data = [s \in {} |-> 0]
    /\ order_status = [o \in {} |-> ""]
    /\ connected = FALSE
    /\ idInFlight = None
    /\ orders = <<>>
    /\ account = [s \in Symbols |-> 0]
    /\ pc = "ledger"
    /\ idx = 1
    /\ latest = NoBar
    /\ position = 0
    /\ intent = NoIntent
    /\ order_id = None
    /\ IdleFetcher
    /\ IdleLooper
    /\ IdleAnalyst

\* one call of update_position by a user of the ledger
ApplyFill ==
    /\ Len(trades) < MaxTrades
    /\ \E symbol \in Symbols, action \in Actions, quantity \in LedgerQtys,
          p \in LedgerPrices, oid \in LedgerOrderIds :
          update_position(symbol, quantity, Price(p), action, oid)
    /\ UNCHANGED <<client, gateway, driver>>
    /\ UNCHANGED <<fetcher, looper>>
    /\ UNCHANGED analyst

LedgerNext == ApplyFill

LedgerSpec == LedgerInit /\ [][LedgerNext]_vars

\* ------------------------------------------------------------------------
\* Fetching bars: get_historical_data and generate_signals in detail
\* ------------------------------------------------------------------------
\* most bars the gateway delivers for one request
MaxBars == 51
\* most bars of an earlier request that arrive after its timeout
MaxLateBars == 1
\* get_historical_data: timeout, in seconds
timeout == 30

\* generate_signals: "if len(data) < self.ma_period: return None", accepted
\* whatever the length
HasEnoughBars_Always(n) == TRUE

\* generate_signals: "if len(data) < self.ma_period: return None"
HasEnoughBars(n) == ~(n < MA_PERIOD)

\* the bot is in its trading loop on a connected session
FetchInit ==
    /\ positions = EmptyPositions
    /\ trades = <<>>
    /\ position_data = [s \in {} |-> 0]
    /\ order_status = [o \in {} |-> ""]
    /\ connected = TRUE /\ nextValidOrderId = FirstOrderId /\ idInFlight = None
    /\ orders = <<>>
    /\ account = [s \in Symbols |-> 0]
    /\ pc = "loop"
    /\ idx = 1
    /\ latest = NoBar
    /\ position = 0
    /\ intent = NoIntent
    /\ order_id = None
    /\ IdleFetcher
    /\ active = TRUE
    /\ keep_running = TRUE
    /\ wait_time = 0
    /\ handled = <<>>
    /\ IdleAnalyst

\* get_historical_data on a session that is down: returns None, and
\* run_strategy returns on "data is None"
FetchNotConnected ==
    /\ pc = "loop"
    /\ ~connected
    /\ data' = None
    /\ UNCHANGED <<ledger, client, gateway, looper>>
    /\ UNCHANGED <<historical_data, historical_data_end, req_open, elapsed, timed_out>>
    /\ UNCHANGED earlier
    /\ Return
    /\ UNCHANGED analyst

\* get_historical_data resets the client's buffer and end flag, sends
\* reqHistoricalData (always with reqId 1) and takes start_time; a request
\* the gateway has not finished goes on being served
FetchRequest ==
    /\ pc = "loop"
    /\ Len(trades) < MaxOrders
    /\ connected
    /\ historical_data' = 0
    /\ historical_data_end' = FALSE
    /\ req_open' = TRUE
    /\ late_open' = (req_open \/ late_open)
    /\ foreign' = 0
    /\ elapsed' = 0
    /\ data' = None
    /\ timed_out' = FALSE
    /\ pc' = "wait"
    /\ UNCHANGED <<ledger, client, gateway, looper, idx, latest, position, intent, order_id>>
    /\ UNCHANGED analyst

\* IBApiClient.historicalData: one more bar
HistoricalData ==
    /\ connected
    /\ req_open
    /\ historical_data < MaxBars
    /\ historical_data' = historical_data + 1
    /\ UNCHANGED <<ledger, client, gateway, driver, looper>>
    /\ UNCHANGED <<historical_data_end, req_open, elapsed, data, timed_out>>
    /\ UNCHANGED earlier
    /\ UNCHANGED analyst

\* IBApiClient.historicalDataEnd
HistoricalDataEnd ==
    /\ connected
    /\ req_open
    /\ historical_data_end' = TRUE
    /\ req_open' = FALSE
    /\ UNCHANGED <<ledger, client, gateway, driver, looper>>
    /\ UNCHANGED <<historical_data, elapsed, data, timed_out>>
    /\ UNCHANGED earlier
    /\ UNCHANGED analyst

\* IBApiClient.historicalData for a bar of an earlier request: the callback
\* does not look at reqId and appends it to the same list
LateHistoricalData ==
    /\ connected
    /\ late_open
    /\ historical_data < MaxBars
    /\ foreign < MaxLateBars
    /\ historical_data' = historical_data + 1
    /\ foreign' = foreign + 1
    /\ UNCHANGED <<ledger, client, gateway, driver, looper>>
    /\ UNCHANGED <<historical_data_end, req_open, elapsed, data, timed_out>>
    /\ UNCHANGED late_open
    /\ UNCHANGED analyst

\* IBApiClient.historicalDataEnd for an earlier request: the same flag is set
LateHistoricalDataEnd ==
    /\ connected
    /\ late_open
    /\ historical_data_end' = TRUE
    /\ late_open' = FALSE
    /\ UNCHANGED <<ledger, client, gateway, driver, looper>>
    /\ UNCHANGED <<historical_data, req_open, elapsed, data, timed_out, foreign>>
    /\ UNCHANGED analyst

\* the wait loop sleeps: no end event yet and time left
WaitForData ==
    /\ pc = "wait"
    /\ ~historical_data_end
    /\ elapsed < timeout
    /\ elapsed' = elapsed + 1
    /\ UNCHANGED <<ledger, client, gateway, looper, idx, latest, position, intent, order_id>>
    /\ UNCHANGED <<pc, historical_data, historical_data_end, req_open, data, timed_out>>
    /\ UNCHANGED earlier
    /\ UNCHANGED analyst

\* the wait loop is over: the timeout is logged if the end event is missing,
\* and whatever bars have arrived are returned as a DataFrame (None if none);
\* start_time is a local and is gone on return
GetHistoricalDataReturns ==
    /\ pc = "wait"
    /\ historical_data_end \/ ~(elapsed < timeout)
    /\ timed_out' = ~historical_data_end
    /\ data' = IF historical_data > 0 THEN historical_data ELSE None
    /\ elapsed' = 0
    /\ pc' = "signals"
    /\ UNCHANGED <<ledger, client, gateway, looper, idx, latest, position, intent, order_id>>
    /\ UNCHANGED <<historical_data, historical_data_end, req_open>>
    /\ UNCHANGED earlier
    /\ UNCHANGED analyst

\* run_strategy after the fetch: returns on no data, or when generate_signals
\* returns None; else latest = signals_df.iloc[-1]
GenerateSignals ==
    /\ pc = "signals"
    /\ IF data # None /\ HasEnoughBars(data)
       THEN /\ \E above \in BOOLEAN, prev_above \in BOOLEAN, rsi \in RsiValues,
                  close \in ClosePrices :
                  latest' = LatestBar(above, prev_above, rsi, close)
            /\ pc' = "read"
            /\ UNCHANGED <<idx, position, intent, order_id>>
       ELSE Return
    /\ UNCHANGED <<ledger, client, gateway, fetcher, looper>>
    /\ UNCHANGED analyst

FetchNext ==
    \/ FetchNotConnected
    \/ FetchRequest
    \/ HistoricalData
    \/ HistoricalDataEnd
    \/ LateHistoricalData
    \/ LateHistoricalDataEnd
    \/ WaitForData
    \/ GetHistoricalDataReturns
    \/ GenerateSignals
    \/ ReadPosition
    \/ NoOrder
    \/ PlaceOrder
    \/ RecordOrder
    \/ Disconnect

FetchSpec == FetchInit /\ [][FetchNext]_vars

\* ------------------------------------------------------------------------
\* The trading loop: __init__, connect_to_ib, start_trading, stop_trading
\* ------------------------------------------------------------------------
\* self.symbols, with a second symbol so that a cycle has a remaining one
WatchList == <<"NET", "AAPL">>
\* connect_to_ib: timeout = 15 and wait_time grows by 0.1 per iteration
connect_timeout == 150

\* TradingBot.__init__ is about to call connect_to_ib
LoopInit ==
    /\ positions = EmptyPositions
    /\ trades = <<>>
    /\ position_data = [s \in {} |-> 0]
    /\ order_status = [o \in {} |-> ""]
    /\ connected = FALSE /\ nextValidOrderId = None /\ idInFlight = None
    /\ orders = <<>>
    /\ account = [s \in Symbols |-> 0]
    /\ pc = "construct"
    /\ idx = 1
    /\ latest = NoBar
    /\ position = 0
    /\ intent = NoIntent
    /\ order_id = None
    /\ IdleFetcher
    /\ IdleLooper
    /\ IdleAnalyst

\* a for loop that leaves the cycle when a symbol raised
AfterSymbol_ErrorBreaks(outcome) ==
    /\ handled' = Append(handled, outcome)
    /\ IF idx < Len(WatchList) /\ outcome # "error"
       THEN pc' = "for" /\ idx' = idx + 1
       ELSE pc' = "report" /\ idx' = idx

\* the end of one iteration of "for symbol in self.symbols": normally, skipped
\* by reconnect_if_needed, or through "except Exception"; then the next
\* symbol, or the report after the last one
AfterSymbol(outcome) ==
    /\ handled' = Append(handled, outcome)
    /\ IF idx < Len(WatchList)
       THEN pc' = "for" /\ idx' = idx + 1
       ELSE pc' = "report" /\ idx' = idx

\* what the caller of connect_to_ib does with its result: __init__ ignores
\* it, the loop runs the strategy on True and skips the symbol on False
ConnectResult(ok) ==
    IF ~active
    THEN pc' = "start" /\ UNCHANGED <<idx, handled>>
    ELSE IF ok
    THEN pc' = "strategy" /\ UNCHANGED <<idx, handled>>
    ELSE AfterSymbol("skipped")

\* connect_to_ib up to its wait loop, called by __init__ or by
\* reconnect_if_needed on a session that is down
ConnectToIb ==
    /\ pc = "construct" \/ (pc = "for" /\ ~connected)
    /\ \E succeeds \in BOOLEAN, raises \in BOOLEAN :
          /\ ~(succeeds /\ raises)
          /\ connected' = succeeds
          /\ idInFlight' = IF succeeds THEN GatewayNextId ELSE idInFlight
          /\ IF raises
             THEN ConnectResult(FALSE)
             ELSE pc' = "connecting" /\ UNCHANGED <<idx, handled>>
    /\ wait_time' = 0
    /\ UNCHANGED <<ledger, client, orders, account, latest, position, intent, order_id>>
    /\ UNCHANGED <<fetcher, active, keep_running>>
    /\ UNCHANGED analyst

\* one iteration of the wait loop of connect_to_ib
ConnectWait ==
    /\ pc = "connecting"
    /\ nextValidOrderId = None /\ wait_time < connect_timeout
    /\ wait_time' = wait_time + 1
    /\ UNCHANGED <<ledger, client, gateway, driver, fetcher, active, keep_running, handled>>
    /\ UNCHANGED analyst

\* the wait loop is over: connect_to_ib returns "nextValidOrderId is not None"
\* and its local wait_time is gone
ConnectReturns ==
    /\ pc = "connecting"
    /\ ~(nextValidOrderId = None /\ wait_time < connect_timeout)
    /\ ConnectResult(nextValidOrderId # None)
    /\ wait_time' = 0
    /\ UNCHANGED <<ledger, client, gateway, latest, position, intent, order_id>>
    /\ UNCHANGED <<fetcher, active, keep_running>>
    /\ UNCHANGED analyst

\* start_trading up to the try block
LoopStartTrading ==
    /\ pc = "start"
    /\ IF nextValidOrderId = None \/ nextValidOrderId = 0
       THEN pc' = "refused" /\ active' = active
       ELSE pc' = "top" /\ active' = TRUE
    /\ UNCHANGED <<ledger, client, gateway, idx, latest, position, intent, order_id>>
    /\ UNCHANGED <<fetcher, keep_running, wait_time, handled>>
    /\ UNCHANGED analyst

\* a stop that leaves the session open
stop_trading_KeepsSession ==
    /\ active' = FALSE
    /\ UNCHANGED <<connected, idInFlight>>

\* stop_trading: active = False, api_client.disconnect()
stop_trading ==
    /\ active' = FALSE
    /\ connected' = FALSE
    /\ idInFlight' = None

\* "while self.active and self.keep_running": a new cycle, or the loop ends
\* and the finally clause stops the bot
LoopTop ==
    /\ pc = "top"
    /\ IF active /\ keep_running
       THEN /\ Len(orders) < MaxOrders
            /\ pc' = "for" /\ idx' = 1 /\ handled' = <<>>
            /\ UNCHANGED <<active, connected, idInFlight>>
       ELSE /\ pc' = "stopped"
            /\ stop_trading
            /\ UNCHANGED <<idx, handled>>
    /\ UNCHANGED <<ledger, client, orders, account, latest, position, intent, order_id>>
    /\ UNCHANGED <<fetcher, keep_running, wait_time>>
    /\ UNCHANGED analyst

\* reconnect_if_needed on a session that is up
LoopConnected ==
    /\ pc = "for"
    /\ connected
    /\ pc' = "strategy"
    /\ UNCHANGED <<ledger, client, gateway, idx, latest, position, intent, order_id>>
    /\ UNCHANGED <<fetcher, looper>>
    /\ UNCHANGED analyst

\* run_strategy(symbol) from entry to return or exception. has_data: the fetch
\* and generate_signals gave a latest bar; fails: where an exception leaves
\* run_strategy ("signals": before the position logic, "update": in
\* update_position, "report": in the trade summary or chart after it)
LoopRunStrategy ==
    /\ pc = "strategy"
    /\ \E has_data \in BOOLEAN, above \in BOOLEAN, prev_above \in BOOLEAN,
          rsi \in RsiValues, close \in ClosePrices, shortable \in BOOLEAN,
          raises \in BOOLEAN, fails \in {"none", "signals", "update", "report"} :
          LET bar == LatestBar(above, prev_above, rsi, close)
              it == Intent(get_current_position(position_data, WatchList[idx]),
                           bar, shortable)
              oid == place_limit_order(nextValidOrderId, bar.close, raises)
              o == [orderId |-> oid, symbol |-> WatchList[idx],
                    action |-> OrderAction(it.action),
                    quantity |-> it.quantity, status |-> "Submitted"]
          IN  IF fails = "signals"
              THEN /\ AfterSymbol("error")
                   /\ UNCHANGED <<ledger, nextValidOrderId, orders>>
              ELSE IF ~connected \/ ~has_data \/ it = NoIntent
              THEN /\ fails = "none"
                   /\ AfterSymbol("ok")
                   /\ UNCHANGED <<ledger, nextValidOrderId, orders>>
              ELSE /\ orders' = IF oid # None /\ connected
                                THEN Append(orders, o) ELSE orders
                   /\ nextValidOrderId' = IF oid # None THEN nextValidOrderId + 1
                                          ELSE nextValidOrderId
                   /\ IF ~Truthy(oid)
                      THEN /\ fails = "none"
                           /\ UNCHANGED ledger
                           /\ AfterSymbol("ok")
                      ELSE IF fails = "update"
                      THEN /\ UNCHANGED ledger
                           /\ AfterSymbol("error")
                      ELSE /\ update_position(WatchList[idx], it.quantity,
                                              Price(bar.close), it.action, oid)
                           /\ AfterSymbol(IF fails = "report" THEN "error" ELSE "ok")
    /\ UNCHANGED <<position_data, order_status, connected, idInFlight, account>>
    /\ UNCHANGED <<latest, position, intent, order_id>>
    /\ UNCHANGED <<fetcher, active, keep_running, wait_time>>
    /\ UNCHANGED analyst

\* generate_portfolio_report and the sleep before the next cycle
LoopReport ==
    /\ pc = "report"
    /\ pc' = "top"
    /\ UNCHANGED <<ledger, client, gateway, idx, latest, position, intent, order_id>>
    /\ UNCHANGED <<fetcher, looper>>
    /\ UNCHANGED analyst

\* someone asks the bot to stop: keep_running = False
StopRequest ==
    /\ active
    /\ keep_running
    /\ keep_running' = FALSE
    /\ UNCHANGED <<ledger, client, gateway, driver, fetcher, active, wait_time, handled>>
    /\ UNCHANGED analyst

\* KeyboardInterrupt anywhere inside the try block of start_trading:
\* the except clause logs, the finally clause stops the bot
KeyboardInterrupt ==
    /\ active
    /\ pc \in {"top", "for", "connecting", "strategy", "report"}
    /\ pc' = "stopped"
    /\ stop_trading
    /\ UNCHANGED <<ledger, client, orders, account, idx, latest, position, intent, order_id>>
    /\ UNCHANGED <<fetcher, keep_running, wait_time, handled>>
    /\ UNCHANGED analyst

\* an exception outside the per-symbol try (reqPositions, the report, the
\* sleep): "except Exception" logs, the finally clause stops the bot
UnexpectedError ==
    /\ active
    /\ pc \in {"top", "report"}
    /\ pc' = "stopped"
    /\ stop_trading
    /\ UNCHANGED <<ledger, client, orders, account, idx, latest, position, intent, order_id>>
    /\ UNCHANGED <<fetcher, keep_running, wait_time, handled>>
    /\ UNCHANGED analyst

LoopNext ==
    \/ ConnectToIb
    \/ ConnectWait
    \/ ConnectReturns
    \/ LoopStartTrading
    \/ LoopTop
    \/ LoopConnected
    \/ LoopRunStrategy
    \/ LoopReport
    \/ StopRequest
    \/ KeyboardInterrupt
    \/ UnexpectedError
    \/ NextValidId
    \/ Disconnect

LoopSpec == LoopInit /\ [][LoopNext]_vars

\* ------------------------------------------------------------------------
\* OrderManager.place_limit_order driven directly (order.py)
\* ------------------------------------------------------------------------
\* Python None where a price is expected
NoPrice == <<0, 0>>
\* LIMIT_PRICE_OFFSET = 0.02 (also the default of getattr in order.py)
LIMIT_PRICE_OFFSET == Div(2, 100)
\* current prices handed to place_limit_order, in thousandths: 0.004, 0.101,
\* 0.25, 50.00, 50.004
OrderPrices == {Div(n, 1000) : n \in {4, 101, 250, 50000, 50004}}

Times(a, b) == Div(a[1] * b[1], a[2] * b[2])
Plus(a, b) == Div(a[1] * b[2] + b[1] * a[2], a[2] * b[2])
Minus(a, b) == Div(a[1] * b[2] - b[1] * a[2], a[2] * b[2])

\* round(x, 2) for x >= 0: the nearest multiple of 0.01; up: where a value
\* halfway between two of them goes (the float product decides that)
Round2(x, up) ==
    LET n == 100 * x[1]
        k == n \div x[2]
        r == n % x[2]
    IN  Div(IF 2 * r < x[2] THEN k
            ELSE IF 2 * r > x[2] THEN k + 1
            ELSE IF up THEN k + 1 ELSE k, 100)

\* limit_price of place_limit_order (BUY, else SELL), place_short_order and
\* place_cover_order
limit_price(action, current_price, up) ==
    IF action \in {"BUY", "COVER"}
    THEN Round2(Times(current_price, Plus(Price(1), LIMIT_PRICE_OFFSET)), up)
    ELSE Round2(Times(current_price, Minus(Price(1), LIMIT_PRICE_OFFSET)), up)

\* an OrderManager on a connected client, before any call
OrderInit ==
    /\ positions = EmptyPositions
    /\ trades = <<>>
    /\ nextValidOrderId \in {None, FirstOrderId}
    /\ position_data = [s \in {} |-> 0]
    /\ order_status = [o \in {} |-> ""]
    /\ connected = TRUE
    /\ idInFlight = None
    /\ orders = <<>>
    /\ account = [s \in Symbols |-> 0]
    /\ pc = "order"
    /\ idx = 1
    /\ latest = NoBar
    /\ position = 0
    /\ intent = NoIntent
    /\ order_id = None
    /\ IdleFetcher
    /\ IdleLooper
    /\ IdleAnalyst

\* a placement that does not advance nextValidOrderId
PlaceLimitOrder_NoAdvance ==
    /\ Len(orders) < MaxOrders
    /\ \E action \in Actions, current_price \in OrderPrices \cup {NoPrice},
          raises \in BOOLEAN, up \in BOOLEAN :
          LET given == IF current_price = NoPrice THEN None ELSE 0
              oid == place_limit_order(nextValidOrderId, given, raises)
          IN  /\ intent' = [action |-> action, quantity |-> DEFAULT_POSITION_SIZE]
              /\ latest' = [NoBar EXCEPT !.close = current_price]
              /\ order_id' = oid
              /\ pc' = IF given # None /\ nextValidOrderId # None /\ raises
                       THEN "except" ELSE "returned"
              /\ IF oid # None
                 THEN /\ orders' = Append(orders,
                            [orderId |-> oid, symbol |-> SYMBOLS[idx],
                             action |-> OrderAction(action),
                             quantity |-> DEFAULT_POSITION_SIZE,
                             lmtPrice |-> limit_price(action, current_price, up),
                             status |-> "Submitted"])
                      /\ nextValidOrderId' = nextValidOrderId
                 ELSE UNCHANGED <<orders, nextValidOrderId>>
    /\ UNCHANGED <<ledger, position_data, order_status, connected, idInFlight, account>>
    /\ UNCHANGED <<idx, position, fetcher, looper>>
    /\ UNCHANGED analyst

\* one call place_limit_order(symbol, action, quantity, current_price), from
\* entry to return; raises: placeOrder threw, the except clause returns None
PlaceLimitOrder ==
    /\ Len(orders) < MaxOrders
    /\ \E action \in Actions, current_price \in OrderPrices \cup {NoPrice},
          raises \in BOOLEAN, up \in BOOLEAN :
          LET given == IF current_price = NoPrice THEN None ELSE 0
              oid == place_limit_order(nextValidOrderId, given, raises)
          IN  /\ intent' = [action |-> action, quantity |-> DEFAULT_POSITION_SIZE]
              /\ latest' = [NoBar EXCEPT !.close = current_price]
              /\ order_id' = oid
              /\ pc' = IF given # None /\ nextValidOrderId # None /\ raises
                       THEN "except" ELSE "returned"
              /\ IF oid # None
                 THEN /\ orders' = Append(orders,
                            [orderId |-> oid, symbol |-> SYMBOLS[idx],
                             action |-> OrderAction(action),
                             quantity |-> DEFAULT_POSITION_SIZE,
                             lmtPrice |-> limit_price(action, current_price, up),
                             status |-> "Submitted"])
                      /\ nextValidOrderId' = nextValidOrderId + 1
                 ELSE UNCHANGED <<orders, nextValidOrderId>>
    /\ UNCHANGED <<ledger, position_data, order_status, connected, idInFlight, account>>
    /\ UNCHANGED <<idx, position, fetcher, looper>>
    /\ UNCHANGED analyst

OrderNext == PlaceLimitOrder

OrderSpec == OrderInit /\ [][OrderNext]_vars

\* ------------------------------------------------------------------------
\* SignalGenerator.generate_signals driven directly (signals.py)
\* ------------------------------------------------------------------------
\* close_prices of test_signal_generation, in units of 0.5:
\* [100 + i*0.5 for i in range(80)] + [140 - i*0.5 for i in range(20)]
TestSeries ==
    [i \in 1..100 |-> IF i <= 80 THEN 200 + (i - 1) ELSE 280 - (i - 81)]

\* the generator of the configuration and a generator with short periods
ConfigGenerator == [ma_period |-> MA_PERIOD, rsi_period |-> RSI_PERIOD]
ShortGenerator == [ma_period |-> ShortMaPeriod, rsi_period |-> ShortRsiPeriod]

\* the first close of a series built bar by bar, and the changes from one
\* close to the next
FirstClose == 20
Steps == {-1, 0, 1, 2}

\* a SignalGenerator and an empty series
SignalsInit ==
    /\ positions = EmptyPositions
    /\ trades = <<>>
    /\ nextValidOrderId = None
    /\ position_data = [s \in {} |-> 0]
    /\ order_status = [o \in {} |-> ""]
    /\ connected = FALSE
    /\ idInFlight = None
    /\ orders = <<>>
    /\ account = [s \in Symbols |-> 0]
    /\ pc = "series"
    /\ idx = 1
    /\ latest = NoBar
    /\ position = 0
    /\ intent = NoIntent
    /\ order_id = None
    /\ IdleFetcher
    /\ IdleLooper
    /\ bars = <<>>
    /\ signals_df = <<>>
    /\ generator \in {ConfigGenerator, ShortGenerator}

\* the series of the test grows by its next bar
AppendTestBar ==
    /\ pc = "series"
    /\ generator = ConfigGenerator
    /\ Len(bars) < Len(TestSeries)
    /\ bars' = Append(bars, TestSeries[Len(bars) + 1])
    /\ UNCHANGED <<ledger, client, gateway, driver, fetcher, looper, signals_df, generator>>

\* a series for the short periods grows by a bar
AppendBar ==
    /\ pc = "series"
    /\ generator = ShortGenerator
    /\ Len(bars) < MaxSeries
    /\ \E step \in Steps :
          bars' = Append(bars, IF bars = <<>> THEN FirstClose ELSE Last(bars) + step)
    /\ UNCHANGED <<ledger, client, gateway, driver, fetcher, looper, signals_df, generator>>

\* one call generate_signals(data): None for too short a series, else the
\* DataFrame with indicator and signal columns
CallGenerateSignals ==
    /\ pc = "series"
    /\ IF Len(bars) < generator.ma_period
       THEN pc' = "none" /\ signals_df' = <<>>
       ELSE pc' = "frame" /\ signals_df' = generate_signals(bars, generator)
    /\ UNCHANGED <<ledger, client, gateway, fetcher, looper, bars, generator>>
    /\ UNCHANGED <<idx, latest, position, intent, order_id>>

SignalsNext ==
    \/ AppendTestBar
    \/ AppendBar
    \/ CallGenerateSignals

SignalsSpec == SignalsInit /\ [][SignalsNext]_vars

\* ------------------------------------------------------------------------
\* Properties
\* ------------------------------------------------------------------------
\* signed sum of the quantities of a symbol's trades: BUY and COVER count
\* positive, SELL and SHORT negative
RECURSIVE SignedSum(_, _)
SignedSum(log, symbol) ==
    IF log = <<>> THEN 0
    ELSE LET t == Last(log)
             rest == SignedSum(SubSeq(log, 1, Len(log) - 1), symbol)
         IN  IF t.symbol # symbol THEN rest
             ELSE IF t.action \in {"BUY", "COVER"} THEN rest + t.qty
             ELSE rest - t.qty

\* C1: after any sequence of update_position calls from an empty ledger, for
\* every symbol get_position equals the signed sum of that symbol's trades.
Claim_C1 ==
    \A s \in Symbols : get_position(positions, s) = SignedSum(trades, s)

\* C2: the trading loop never hands the gateway a new order for a symbol while
\* an earlier order for that symbol has not reached a terminal status.
Claim_C2 ==
    [][\A i \in DOMAIN orders' :
          i > Len(orders) =>
             \A j \in DOMAIN orders :
                orders[j].symbol = orders'[i].symbol => orders[j].status \in TerminalStatus]_vars

\* C3: once a fill with a non-null order id has been applied, applying the
\* same fill again leaves the position map and the trade log as they are.
Claim_C3 ==
    (trades # <<>> /\ Last(trades).order_id # None) =>
        LET t == Last(trades)
        IN  /\ NewPositions(positions, t.symbol, t.qty, t.price, t.action) = positions
            /\ NewTrades(trades, t.symbol, t.qty, t.price, t.action, t.order_id) = trades

\* C4: the trading loop never places a BUY order for a symbol whose ledger
\* quantity is > 0, nor a SHORT order for a symbol whose ledger quantity is < 0.
Claim_C4 ==
    [][(pc = "place" /\ pc' = "record" /\ order_id' # None) =>
          /\ intent'.action = "BUY" => ~(get_position(positions, SYMBOLS[idx]) > 0)
          /\ intent'.action = "SHORT" => ~(get_position(positions, SYMBOLS[idx]) < 0)]_vars

\* C5: the position value run_strategy uses to choose the action equals the
\* ledger's quantity for the symbol at that moment.
Claim_C5 ==
    pc = "place" => position = get_position(positions, SYMBOLS[idx])

\* C6: the ledger is updated exactly once for each order reported as filled
\* and for no other reason: every trade belongs to an order whose reported
\* status is Filled, and every order reported Filled has exactly one trade.
Claim_C6 ==
    /\ \A k \in DOMAIN trades :
          /\ trades[k].order_id \in DOMAIN order_status
          /\ order_status[trades[k].order_id] = "Filled"
    /\ \A o \in DOMAIN order_status :
          order_status[o] = "Filled" =>
             Cardinality({k \in DOMAIN trades : trades[k].order_id = o}) = 1

\* C7: in a cycle whose order submission fails (place_limit_order returns no
\* order id) no step of run_strategy changes the position map or the trade
\* log: the steps up to the placement never do, and the step after a failed
\* placement does not either.
Theorem_C7 ==
    [][(pc \in {"fetch", "read", "place"} \/ (pc = "record" /\ order_id = None)) =>
          (positions' = positions /\ trades' = trades)]_vars

\* a placement was attempted and returned no order id
Witness_C7 ==
    pc = "record" /\ intent # NoIntent /\ order_id = None

\* C8: update_position with action SHORT on a symbol whose ledger quantity is
\* > 0 leaves the position map and the trade log unchanged.
Claim_C8 ==
    \A s \in Symbols, q \in LedgerQtys, p \in LedgerPrices, oid \in LedgerOrderIds :
        get_position(positions, s) > 0 =>
            /\ NewPositions(positions, s, q, Price(p), "SHORT") = positions
            /\ NewTrades(trades, s, q, Price(p), "SHORT", oid) = trades

\* the step is a call update_position(s, q, p, a, _): it leaves (s, q, p, a)
\* as the newest record of the log
Called(s, a) ==
    /\ trades' # trades
    /\ trades' # <<>>
    /\ Last(trades').symbol = s
    /\ Last(trades').action = a

\* a COVER of more than the short magnitude leaves a long position of the
\* excess, priced at the cover price
CoverFlip ==
    \A s \in Symbols :
        (Called(s, "COVER") /\ get_position(positions, s) < 0
           /\ Last(trades').qty > -get_position(positions, s)) =>
            /\ s \in DOMAIN positions'
            /\ positions'[s] = [qty |-> Last(trades').qty + get_position(positions, s),
                                entry_price |-> Last(trades').price,
                                position_type |-> "LONG"]

ShortThenCover ==
    <<TradeRecord("NET", 5, Price(50), "SHORT", 1), TradeRecord("NET", 8, Price(40), "COVER", 1)>>

\* SHORT 5 at 50 then COVER 8 at 40 from a flat ledger
FlipScenario ==
    trades = ShortThenCover =>
        positions = Put(EmptyPositions, "NET",
                        [qty |-> 3, entry_price |-> Price(40), position_type |-> "LONG"])

\* C9: for a short position of magnitude s, COVER c at p with c > s leaves
\* qty = c - s, entry_price = p and position_type LONG; SHORT 5 at 50 followed
\* by COVER 8 at 40 from a flat ledger yields qty 3, entry price 40, type LONG.
Theorem_C9 ==
    [][CoverFlip]_vars /\ []FlipScenario

\* the flip scenario has been played
Witness_C9 ==
    trades = ShortThenCover /\ get_position(positions, "NET") = 3

\* BUY on a symbol with no position opens a long of that quantity and price
BuyOnFlat ==
    \A s \in Symbols :
        (Called(s, "BUY") /\ s \notin DOMAIN positions) =>
            /\ s \in DOMAIN positions'
            /\ positions'[s] = [qty |-> Last(trades').qty,
                                entry_price |-> Last(trades').price,
                                position_type |-> "LONG"]
            /\ Len(trades') = Len(trades) + 1

\* the newest trade is a BUY of symbol s that opened the position s now has
JustOpenedLong(s) ==
    /\ trades # <<>>
    /\ Last(trades).symbol = s
    /\ Last(trades).action = "BUY"
    /\ s \in DOMAIN positions
    /\ positions[s] = [qty |-> Last(trades).qty, entry_price |-> Last(trades).price,
                       position_type |-> "LONG"]

\* SELL of the quantity just bought removes the position
SellAfterBuy ==
    \A s \in Symbols :
        (JustOpenedLong(s) /\ Called(s, "SELL") /\ Last(trades').qty = Last(trades).qty) =>
            /\ s \notin DOMAIN positions'
            /\ get_position(positions', s) = 0
            /\ Len(trades') = Len(trades) + 1
            /\ SubSeq(trades', 1, Len(trades)) = trades

\* C10: from a ledger with no position in a symbol, BUY q at p1 yields qty q,
\* entry_price p1, type LONG; a following SELL q at p2 removes the position
\* and the two calls add exactly two records to the trade log.
Theorem_C10 ==
    [][BuyOnFlat /\ SellAfterBuy]_vars

\* a BUY from flat followed by a SELL of the same quantity has been played
Witness_C10 ==
    /\ Len(trades) = 2
    /\ trades[1].action = "BUY" /\ trades[2].action = "SELL"
    /\ trades[1].symbol = trades[2].symbol
    /\ trades[1].qty = trades[2].qty
    /\ trades[1].price # trades[2].price
    /\ get_position(positions, trades[1].symbol) = 0

\* C11: every update_position call appends exactly one record to the trade
\* log and leaves the records already there as they were: the log before the
\* call is a prefix of the log after it.
Theorem_C11 ==
    [][/\ Len(trades') = Len(trades) + 1
       /\ SubSeq(trades', 1, Len(trades)) = trades]_vars

\* two different fills have been applied one after the other
Witness_C11 ==
    Len(trades) = 2 /\ trades[1] # trades[2]

\* p <= q for prices as fractions with positive denominators
PriceLe(p, q) == p[1] * q[2] <= q[1] * p[2]

\* p lies between a and b, whichever of the two is larger
PriceBetween(p, a, b) ==
    \/ PriceLe(a, p) /\ PriceLe(p, b)
    \/ PriceLe(b, p) /\ PriceLe(p, a)

\* a BUY of q at p on a flat or long symbol: qty grows by q and the entry
\* price e satisfies e * (old_qty + q) = old_qty * old_price + q * p
BuyAverages ==
    \A s \in Symbols :
        (Called(s, "BUY") /\ get_position(positions, s) >= 0) =>
            LET q == Last(trades').qty
                p == Last(trades').price
                old_qty == get_position(positions, s)
                old_price == IF s \in DOMAIN positions THEN positions[s].entry_price ELSE p
            IN  /\ s \in DOMAIN positions'
                /\ positions'[s].qty = old_qty + q
                /\ positions'[s].qty >= old_qty
                /\ LET e == positions'[s].entry_price
                   IN  /\ e[1] * (old_qty + q) * old_price[2] * p[2]
                            = e[2] * (old_qty * old_price[1] * p[2] + q * p[1] * old_price[2])
                       /\ old_qty = 0 => e = p
                       /\ PriceBetween(e, old_price, p)

\* C20: update_position(BUY, q, p) on a flat or long position sets qty to
\* old_qty + q and entry_price to (old_qty*old_price + q*p) / (old_qty + q),
\* which is p for a flat position and lies between old_price and p otherwise.
Theorem_C20 ==
    [][BuyAverages]_vars

\* a long bought at one price has been added to at another price
Witness_C20 ==
    /\ Len(trades) = 2
    /\ trades[1].action = "BUY" /\ trades[2].action = "BUY"
    /\ trades[1].symbol = "NET" /\ trades[2].symbol = "NET"
    /\ trades[1].price # trades[2].price
    /\ "NET" \in DOMAIN positions
    /\ positions["NET"].qty = trades[1].qty + trades[2].qty
    /\ positions["NET"].entry_price \notin {trades[1].price, trades[2].price}

\* the driver moves through one invocation of run_strategy in order, and only
\* the placement step hands an order to the gateway, at most one, and only
\* the step after it writes the ledger, at most one record
OneOrderPerInvocation ==
    /\ pc' = "read" => pc \in {"fetch", "read"}
    /\ pc' = "place" => pc \in {"read", "place"}
    /\ pc' = "record" => pc \in {"place", "record"}
    /\ Len(orders') # Len(orders) =>
          (pc = "place" /\ pc' = "record" /\ Len(orders') = Len(orders) + 1)
    /\ Len(trades') # Len(trades) =>
          (pc = "record" /\ pc' = "loop" /\ Len(trades') = Len(trades) + 1)

\* C12: one run_strategy invocation places at most one broker order and makes
\* at most one update_position call, whatever the position and signal flags.
Theorem_C12 ==
    [][OneOrderPerInvocation]_vars

\* an invocation has placed its order and recorded it
Witness_C12 ==
    pc = "loop" /\ Len(orders) = 1 /\ Len(trades) = 1

\* the order just handed to place_limit_order fits the position run_strategy
\* read and the flags of the latest bar
OrderFitsSignals ==
    (pc = "place" /\ pc' = "record") =>
        /\ intent'.action \in Actions
        /\ position = 0 =>
              \/ /\ intent'.action = "BUY"
                 /\ latest.price_cross_above_sma /\ latest.rsi_below_threshold
              \/ /\ intent'.action = "SHORT"
                 /\ latest.price_cross_below_sma \/ latest.rsi_above_threshold
        /\ position > 0 =>
              /\ intent'.action = "SELL"
              /\ latest.price_cross_below_sma \/ latest.rsi_above_threshold
        /\ position < 0 =>
              /\ intent'.action = "COVER"
              /\ latest.price_cross_above_sma \/ latest.rsi_below_threshold

Claim_C14 ==
    [][(pc = "loop" /\ pc' = "fetch") => connected']_vars

\* C17: when the wait of get_historical_data ended on its timeout without the
\* end-of-data event, the cycle goes on with no data: no signal is evaluated
\* and no order is placed.
Claim_C17 ==
    timed_out => pc \notin {"read", "place", "record"}

\* what run_strategy does with a DataFrame shorter than the moving-average
\* period: it returns, having placed nothing and written nothing
TooFewBarsSkips ==
    (pc = "signals" /\ pc' # "signals" /\ data # None /\ data < MA_PERIOD) =>
        /\ pc' = "loop"
        /\ latest' = NoBar
        /\ UNCHANGED <<ledger, orders, nextValidOrderId>>

\* C18: with fewer bars than the moving-average period generate_signals
\* returns None, and run_strategy returns normally without an order and
\* without touching the ledger.
Theorem_C18 ==
    [][TooFewBarsSkips]_vars

\* a fetch of some bars, fewer than the period, has ended the invocation
Witness_C18 ==
    /\ pc = "loop"
    /\ data # None /\ data > 0 /\ data < MA_PERIOD
    /\ trades = <<>> /\ orders = <<>>

\* an iteration that ended in an exception hands over to the next symbol,
\* the report is reached only with every symbol of the cycle processed, and
\* after the report the loop is back at its head
ErrorIsolated ==
    /\ (pc = "strategy" /\ handled' = Append(handled, "error")) =>
          /\ active' /\ connected' = connected
          /\ IF idx < Len(WatchList)
             THEN pc' = "for" /\ idx' = idx + 1
             ELSE pc' = "report"
    /\ pc' = "for" => (idx' = Len(handled') + 1 /\ idx' <= Len(WatchList))
    /\ pc' = "report" => Len(handled') = Len(WatchList)
    /\ (pc = "report" /\ pc' \notin {"report", "stopped"}) => pc' = "top"

\* C15: an error raised while one symbol is processed does not keep the loop
\* from processing the remaining symbols of the cycle and going on to the
\* next cycle.
Theorem_C15 ==
    [][ErrorIsolated]_vars

\* the first symbol raised and the second one was processed all the same
Witness_C15 ==
    pc = "report" /\ handled = <<"error", "ok">>

\* C16: a reconnect attempt that fails (the session is still down, or no
\* next-valid-id has arrived) makes the loop skip the symbol and go on.
Claim_C16 ==
    [][(/\ pc = "connecting" /\ active
        /\ pc' \notin {"connecting", "stopped"}
        /\ ~connected \/ idInFlight # None) =>
            /\ pc' \in {"for", "report"}
            /\ handled' = Append(handled, "skipped")]_vars

\* C19: once the trading loop of start_trading has exited (stop request,
\* KeyboardInterrupt or unexpected error) the session is disconnected and
\* active is False.
Theorem_C19 ==
    pc = "stopped" => (~connected /\ ~active)

\* the loop traded on a connected session and has exited on a stop request
Witness_C19 ==
    pc = "stopped" /\ ~keep_running /\ orders # <<>> /\ ~connected /\ ~active

\* a SELL on a long position: a smaller quantity leaves the rest at the old
\* entry price and type, a quantity that covers the position removes it
SellOnLong ==
    \A s \in Symbols :
        (Called(s, "SELL") /\ get_position(positions, s) > 0) =>
            LET q == Last(trades').qty
                n == positions[s].qty
            IN  IF q < n
                THEN /\ s \in DOMAIN positions'
                     /\ positions'[s].qty = n - q
                     /\ positions'[s].entry_price = positions[s].entry_price
                     /\ positions'[s].position_type = positions[s].position_type
                ELSE s \notin DOMAIN positions'

\* C21: SELL q on a long position of n shares keeps qty n - q with entry price
\* and position type unchanged when q < n, and removes the position when
\* q >= n.
Theorem_C21 ==
    [][SellOnLong]_vars

\* a long position has been sold down in part
Witness_C21 ==
    /\ Len(trades) = 2
    /\ trades[1].action = "BUY" /\ trades[2].action = "SELL"
    /\ trades[1].symbol = trades[2].symbol
    /\ trades[2].qty < trades[1].qty
    /\ get_position(positions, trades[1].symbol) = trades[1].qty - trades[2].qty
    /\ positions[trades[1].symbol].entry_price = trades[1].price

\* C29: every stored position has position_type LONG exactly when its
\* quantity is > 0 and SHORT exactly when its quantity is < 0.
Claim_C29 ==
    \A s \in DOMAIN positions :
        /\ positions[s].position_type = "LONG" <=> positions[s].qty > 0
        /\ positions[s].position_type = "SHORT" <=> positions[s].qty < 0

\* C30: SELL on a symbol with no long position and COVER on a symbol with no
\* short position leave the position map and the trade log as they are.
Claim_C30 ==
    [][\A s \in Symbols :
          /\ (Called(s, "SELL") /\ ~(get_position(positions, s) > 0)) => UNCHANGED ledger
          /\ (Called(s, "COVER") /\ ~(get_position(positions, s) < 0)) => UNCHANGED ledger]_vars

\* the step is a call of place_limit_order that sent an order
Placed ==
    Len(orders') = Len(orders) + 1

\* a price that is a whole number of cents
WholeCents(p) == 100 % p[2] = 0

\* the limit of the order just placed is a whole number of cents within half
\* a cent of current_price * (1 + offset) for BUY and COVER, of
\* current_price * (1 - offset) for SELL and SHORT
LimitIsRoundedOffset ==
    Placed =>
        LET lmt == Last(orders').lmtPrice
            p == latest'.close
            exact == IF intent'.action \in {"BUY", "COVER"}
                     THEN Times(p, Plus(Price(1), LIMIT_PRICE_OFFSET))
                     ELSE Times(p, Minus(Price(1), LIMIT_PRICE_OFFSET))
            half == Div(1, 200)
        IN  /\ WholeCents(lmt)
            /\ PriceLe(Minus(exact, half), lmt)
            /\ PriceLe(lmt, Plus(exact, half))

\* the limit of the order just placed is on the far side of the current
\* price: not below it for BUY and COVER, not above it for SELL and SHORT
LimitOnFarSide ==
    Placed =>
        LET lmt == Last(orders').lmtPrice
            p == latest'.close
        IN  IF intent'.action \in {"BUY", "COVER"}
            THEN PriceLe(p, lmt)
            ELSE PriceLe(lmt, p)

\* C22: every order's limit is current_price * (1 + offset) rounded to cents
\* for BUY and COVER and current_price * (1 - offset) rounded to cents for
\* SELL and SHORT, and so a BUY/COVER limit is never below and a SELL/SHORT
\* limit never above the current price.
Claim_C22 ==
    [][LimitIsRoundedOffset /\ LimitOnFarSide]_vars

\* a call with an order id and a price, in which placeOrder did not throw,
\* sends one order under the id n it found, returns n and leaves n + 1
PlacementUsesNextId ==
    (nextValidOrderId # None /\ latest'.close # NoPrice /\ pc' = "returned") =>
        /\ Placed
        /\ SubSeq(orders', 1, Len(orders)) = orders
        /\ Last(orders').orderId = nextValidOrderId
        /\ order_id' = nextValidOrderId
        /\ nextValidOrderId' = nextValidOrderId + 1

\* the orders sent carry strictly increasing ids
IdsIncrease ==
    \A i \in DOMAIN orders, j \in DOMAIN orders :
        i < j => orders[i].orderId < orders[j].orderId

CrossAboveBars == {i \in DOMAIN signals_df : signals_df[i].price_cross_above_sma}
CrossBelowBars == {i \in DOMAIN signals_df : signals_df[i].price_cross_below_sma}

\* C24: on the 100-bar series of the test (rising 0.5 per bar for 80 bars,
\* then falling 0.5 per bar), with MA period 50 and RSI period 14,
\* generate_signals returns a frame with a price_cross_above_sma in the rising
\* part and a price_cross_below_sma after the peak.
Theorem_C24 ==
    (bars = TestSeries /\ generator = ConfigGenerator /\ pc # "series") =>
        /\ pc = "frame"
        /\ Len(signals_df) = Len(TestSeries)
        /\ \E i \in CrossAboveBars : i <= 80
        /\ \E i \in CrossBelowBars : i > 81

\* the frame of the test series, with its first crossing at bar 50
Witness_C24 ==
    /\ pc = "frame" /\ bars = TestSeries /\ generator = ConfigGenerator
    /\ signals_df[MA_PERIOD].price_cross_above_sma
    /\ CrossBelowBars # {}

StrictlyRising(closes) ==
    \A i \in DOMAIN closes : i > 1 => closes[i] > closes[i - 1]

\* C25: for a strictly rising series of at least ma_period bars
\* price_cross_above_sma is true at exactly one bar, the first bar at which
\* the moving average is defined, and price_cross_below_sma at no bar.
Theorem_C25 ==
    (pc = "frame" /\ StrictlyRising(bars)) =>
        /\ CrossAboveBars = {generator.ma_period}
        /\ signals_df[generator.ma_period].sma # NaN
        /\ \A i \in 1..(generator.ma_period - 1) : signals_df[i].sma = NaN
        /\ CrossBelowBars = {}

\* a frame for a strictly rising series longer than the period
Witness_C25 ==
    /\ pc = "frame" /\ StrictlyRising(bars)
    /\ Len(bars) > generator.ma_period
    /\ CrossAboveBars = {generator.ma_period}

\* C26: the oscillator is exactly 100 at every bar whose trailing window has
\* average loss 0, a window with no gains included, and every defined value
\* lies in [0, 100].
Claim_C26 ==
    pc = "frame" =>
        \A i \in DOMAIN signals_df :
            /\ (i >= generator.rsi_period
                /\ WindowSum(Loss(bars), i, generator.rsi_period) = 0) =>
                    signals_df[i].rsi = Price(100)
            /\ signals_df[i].rsi # NaN =>
                    /\ PriceLe(Price(0), signals_df[i].rsi)
                    /\ PriceLe(signals_df[i].rsi, Price(100))

\* the step is one update_position call made by run_strategy (or by a direct
\* user of the ledger): one record appended, the position map changed as
\* that record says
IsUpdatePosition ==
    /\ pc \in {"record", "strategy", "ledger"}
    /\ Len(trades') = Len(trades) + 1
    /\ LET t == Last(trades')
       IN  /\ trades' = NewTrades(trades, t.symbol, t.qty, t.price, t.action, t.order_id)
           /\ positions' = NewPositions(positions, t.symbol, t.qty, t.price, t.action)

\* C27: the position map and the trade log change only inside
\* update_position; signal generation, order placement and the broker
\* callbacks leave both unchanged.
Theorem_C27 ==
    [][(positions' # positions \/ trades' # trades) => IsUpdatePosition]_vars

\* the ledger has been written and the position and orderStatus callbacks
\* have run
Witness_C27 ==
    /\ trades # <<>>
    /\ DOMAIN position_data # {}
    /\ DOMAIN order_status # {}

\* how far the driver is through run_strategy
Rank(l) ==
    CASE l = "fetch" -> 1
      [] l = "read" -> 2
      [] l = "place" -> 3
      [] l = "record" -> 4
      [] OTHER -> 5

\* inside run_strategy the driver always has a step to take, whatever the
\* order statuses and fills are
DriverNeverBlocks ==
    pc \in {"fetch", "read", "place", "record"} => ENABLED DriverStep

\* every step of the driver inside run_strategy brings it nearer the return
DriverAdvances ==
    (pc \in {"fetch", "read", "place", "record"} /\ pc' # pc) => Rank(pc') > Rank(pc)

\* C28: a cycle completes without waiting for an orderStatus or fill event:
\* inside run_strategy the driver can always step, whatever the gateway has
\* or has not confirmed, and each of its steps takes it nearer the loop's
\* wait.
Theorem_C28 ==
    []DriverNeverBlocks /\ [][DriverAdvances]_vars

\* a cycle has ended with its order still unconfirmed
Witness_C28 ==
    /\ pc = "loop"
    /\ trades # <<>>
    /\ orders # <<>>
    /\ \A i \in DOMAIN orders : orders[i].status = "Submitted"
    /\ DOMAIN order_status = {}

\* no entry of the position map has quantity 0
NoZeroEntry ==
    \A s \in DOMAIN positions : positions[s].qty # 0

\* get_position is 0 for the symbols without an entry and for no other
ZeroIffAbsent ==
    \A s \in Symbols : get_position(positions, s) = 0 <=> s \notin DOMAIN positions

\* C37: after any sequence of update_position calls with positive quantities
\* the position map stores no entry with qty 0: a symbol whose net quantity
\* reaches zero is removed, so get_position returns 0 exactly for the symbols
\* absent from the map.
Theorem_C37 ==
    NoZeroEntry /\ ZeroIffAbsent

\* a position has been opened and then brought back to exactly zero
Witness_C37 ==
    /\ Len(trades) = 2
    /\ trades[1].symbol = "NET" /\ trades[2].symbol = "NET"
    /\ trades[1].qty = trades[2].qty
    /\ <<trades[1].action, trades[2].action>>
           \in {<<"BUY", "SELL">>, <<"BUY", "SHORT">>, <<"SHORT", "BUY">>, <<"SHORT", "COVER">>}
    /\ "NET" \notin DOMAIN positions
    /\ get_position(positions, "NET") = 0

\* a SHORT of q at p on a symbol without a position, or on a short of
\* magnitude m: the quantity becomes -(m + q) and the entry price e satisfies
\* e * (m + q) = m * old_price + q * p
ShortAverages ==
    \A s \in Symbols :
        (Called(s, "SHORT") /\ get_position(positions, s) <= 0) =>
            LET q == Last(trades').qty
                p == Last(trades').price
                m == -get_position(positions, s)
                old_price == IF s \in DOMAIN positions THEN positions[s].entry_price ELSE p
            IN  /\ s \in DOMAIN positions'
                /\ positions'[s].qty = -(m + q)
                /\ positions'[s].position_type = "SHORT"
                /\ LET e == positions'[s].entry_price
                   IN  /\ e[1] * (m + q) * old_price[2] * p[2]
                            = e[2] * (m * old_price[1] * p[2] + q * p[1] * old_price[2])
                       /\ s \notin DOMAIN positions => e = p

\* C38: update_position(SHORT, q, p) with q > 0 on a flat symbol creates a
\* position with qty -q, entry_price p and type SHORT, and on an existing
\* short of magnitude s yields qty -(s + q), type SHORT and entry_price
\* (s*old_price + q*p) / (s + q).
Theorem_C38 ==
    [][ShortAverages]_vars

\* a short opened at one price has been added to at another price
Witness_C38 ==
    /\ Len(trades) = 2
    /\ trades[1].action = "SHORT" /\ trades[2].action = "SHORT"
    /\ trades[1].symbol = "NET" /\ trades[2].symbol = "NET"
    /\ trades[1].price # trades[2].price
    /\ "NET" \in DOMAIN positions
    /\ positions["NET"].qty = -(trades[1].qty + trades[2].qty)
    /\ positions["NET"].position_type = "SHORT"

\* the trades of the ledger that carry order id n
TradesOf(n) == {j \in DOMAIN trades : trades[j].order_id = n}

\* C31: every order the trading loop has handed to the broker (placeOrder
\* called with id n) is recorded by exactly one ledger trade carrying
\* order_id n, whatever id the broker assigned.
Claim_C31 ==
    pc = "loop" =>
        \A i \in DOMAIN orders : Cardinality(TradesOf(orders[i].orderId)) = 1

\* C32: no two orders placed by the bot carry the same order id, under every
\* interleaving of the driver's read-place-increment of nextValidOrderId with
\* the nextValidId callback, the callback after a reconnect included.
Claim_C32 ==
    \A i, j \in DOMAIN orders : i # j => orders[i].orderId # orders[j].orderId

\* the step is a placeOrder call that came back without an exception
PlaceOrderCalled ==
    pc = "place" /\ pc' = "record" /\ order_id' # None

\* C34: no order is handed to the broker while the session is disconnected:
\* each placeOrder call happens in a state where isConnected() is true.
Claim_C34 ==
    [][PlaceOrderCalled => connected]_vars

\* the quantity of the order run_strategy asks for, against the position it
\* decided on
QuantityFitsPosition ==
    (pc = "place" /\ pc' = "record") =>
        /\ intent'.action = "SELL" => (position > 0 /\ intent'.quantity = position)
        /\ intent'.action = "COVER" => (position < 0 /\ intent'.quantity = -position)
        /\ intent'.action \in {"BUY", "SHORT"} => intent'.quantity = DEFAULT_POSITION_SIZE
        /\ intent'.action \in {"SELL", "COVER"} =>
              position + (IF intent'.action = "SELL" THEN -1 ELSE 1) * intent'.quantity = 0
        /\ Len(orders') > Len(orders) => Last(orders').quantity = intent'.quantity

\* C35: a closing order covers the entire position used for the decision: a
\* SELL order's quantity is the long position, a COVER order's quantity the
\* absolute value of the short position, so neither overshoots into the
\* opposite direction; opening BUY and SHORT orders have quantity
\* DEFAULT_POSITION_SIZE.
Theorem_C35 ==
    [][QuantityFitsPosition]_vars

\* a COVER order for a short position has been handed to the gateway
Witness_C35 ==
    /\ pc = "record"
    /\ position < 0
    /\ intent = [action |-> "COVER", quantity |-> -position]
    /\ orders # <<>>
    /\ Last(orders).orderId = order_id
    /\ Last(orders).quantity = -position

\* the crossing flags exclude each other, and a buy signal excludes the sell
\* and short signals
RowExclusive(bar) ==
    /\ ~(bar.price_cross_above_sma /\ bar.price_cross_below_sma)
    /\ ~(bar.buy_signal /\ bar.sell_signal)
    /\ ~(bar.buy_signal /\ bar.short_signal)

\* the order kinds a bar indicates to run_strategy for a position pos_value
Indicated(pos_value, bar) ==
    {a \in Actions :
        \/ a = "BUY" /\ pos_value = 0 /\ bar.buy_signal
        \/ a = "SELL" /\ pos_value > 0 /\ bar.sell_signal
        \/ a = "SHORT" /\ pos_value = 0 /\ bar.short_signal
        \/ a = "COVER" /\ pos_value < 0 /\ bar.cover_signal}

\* flat, long and short
PositionStates == {0, DEFAULT_POSITION_SIZE, -DEFAULT_POSITION_SIZE}

\* C36: for any bar, with the oversold threshold below the overbought one,
\* price_cross_above_sma and price_cross_below_sma are never both true and
\* buy_signal is never true together with sell_signal or short_signal; hence
\* for a fixed position state the bar indicates at most one of BUY, SELL,
\* SHORT, COVER.
Theorem_C36 ==
    RSI_OVERSOLD < RSI_OVERBOUGHT =>
        /\ RowExclusive(latest)
        /\ \A p \in PositionStates : Cardinality(Indicated(p, latest)) <= 1

\* a bar that raises the short and the cover signal at once (crossing above
\* the average with the oscillator overbought) is being decided on
Witness_C36 ==
    /\ pc = "place"
    /\ latest.price_cross_above_sma /\ latest.rsi_above_threshold
    /\ latest.short_signal /\ latest.cover_signal
    /\ Indicated(position, latest) = {"SHORT"}

\* the step on which get_historical_data hands its DataFrame to run_strategy
FetchReturns ==
    pc = "wait" /\ pc' = "signals"

\* the step is the end-of-data event of an earlier request, arriving while
\* get_historical_data waits for the answer to a later one
LateEndWhileWaiting ==
    pc = "wait" /\ late_open /\ ~late_open'

\* C33: the bars get_historical_data returns for a request are only bars the
\* broker delivered in answer to that request: bars or an end-of-data event
\* arriving late from an earlier, timed-out request are never included in, and
\* never end, a later request's result.
Claim_C33 ==
    [][/\ FetchReturns => foreign = 0
       /\ LateEndWhileWaiting => UNCHANGED historical_data_end]_vars

====
